---- MODULE Spec2Model ----
\* A model of the rabe YCT14 key-policy ABE scheme (schemes/yct14/mod.rs), of the
\* Lewko-Waters LSSS compiler (utils/policy/msp.rs) and of the policy serializer
\* (utils/policy/pest/mod.rs).
EXTENDS Integers, Sequences, FiniteSets, Bags, TLC

VARIABLES
    mspIn,      \* the PolicyValue handed to calculate_msp
    mspOut,     \* what calculate_msp returned for it
    polLang,    \* the PolicyLanguage of the policy string being parsed
    polIn,      \* the policy string, as its tokens (whitespace carries no token)
    polTree,    \* parse(polIn, polLang)
    polOutLang, \* the PolicyLanguage serialize_policy was asked for
    polOut,     \* serialize_policy(polTree, polOutLang, None)
    polBack,    \* parse(polOut, polOutLang)
    pk,         \* the Yct14AbePublicKey setup returned
    msk,        \* the Yct14AbeMasterKey setup returned
    kgIn,       \* the policy string and language handed to keygen
    skRes,      \* what keygen returned
    encIn,      \* the attribute list and plaintext handed to encrypt
    ctRes,      \* what encrypt returned
    decRes      \* what decrypt(sk, ct) returned

mspVars == <<mspIn, mspOut>>
polVars == <<polLang, polIn, polTree, polOutLang, polOut, polBack>>
abeVars == <<pk, msk, kgIn, skRes, encIn, ctRes, decRes>>
vars == <<mspVars, polVars, abeVars>>

\* ------------------------------------------------------------------ results
\* A call ends in Ok(value), in Err(error) or in a panic that aborts the caller.
None == [tag |-> "None"]
Ok(v) == [tag |-> "Ok", val |-> v]
Err(e) == [tag |-> "Err", err |-> e]
Panic(msg) == [tag |-> "Panic", msg |-> msg]

\* ------------------------------------------------------------- PolicyValue
String(attr) == [kind |-> "String", attr |-> attr]
Array(policies) == [kind |-> "Array", policies |-> policies]
Object(type, value) == [kind |-> "Object", type |-> type, value |-> value]

\* A gate as the parsers build it: Object((type, Box(Array(children)))).
Gate(type, children) == Object(type, Array(children))

\* Attribute names, and the order Rust's String comparison gives them.
Names == {"A", "B", "C", "D"}
NameOrd == [n \in Names |-> CASE n = "A" -> 1 [] n = "B" -> 2 [] n = "C" -> 3 [] n = "D" -> 4]

\* ------------------------------------------------------------ msp.rs
ZERO == 0
PLUS == 1
MINUS == 0 - 1

\* Vec::resize(n, value): truncates a longer vector, pads a shorter one.
resize(v, n, value) == [i \in 1..n |-> IF i <= Len(v) THEN v[i] ELSE value]

\* The AbePolicy under construction, with the walk's return value (ret) and
\* the list of the lw calls made so far (calls: the node's path from the root, its
\* attribute when it is a leaf, the vector and the column count it was entered with).
NewMsp == [m |-> <<>>, pi |-> <<>>, c |-> 1, ret |-> "true", calls |-> <<>>]

Entered(msp, p, v, parent, path) ==
    [msp EXCEPT !.calls = Append(@, [path |-> path, kind |-> p.kind,
                                     attr |-> IF p.kind = "String" THEN p.attr ELSE "",
                                     parent |-> parent, v |-> v, c |-> msp.c])]

\* The two vectors of an And gate (msp.rs 137-140): v padded with zeros to c and
\* followed by +1 for the first child, c zeros followed by -1 for the second.
AndRightMinus(v, c) == Append(resize(v, c, ZERO), MINUS)
AndRight(v, c) == Append(resize(v, c, ZERO), PLUS)
AndLeftFromV(v, c) == Append(resize(v, c, ZERO), MINUS)
AndLeft(v, c) == Append(resize(<<>>, c, ZERO), MINUS)

RECURSIVE lw(_, _, _, _, _)
RECURSIVE lwOr(_, _, _, _, _, _)

\* The Or loop of a compiler that takes binary Or gates only.
lwOrBinary(msp, policies, i, v, path, ret) ==
    IF Len(policies) > 2 THEN [msp EXCEPT !.ret = "false"]
    ELSE IF i > Len(policies) THEN [msp EXCEPT !.ret = IF ret THEN "true" ELSE "false"]
    ELSE LET r == lw(msp, policies[i], v, "Or", Append(path, i))
         IN IF r.ret = "panic" THEN r
            ELSE lwOr(r, policies, i + 1, v, path, ret /\ r.ret = "true")

\* for policy in policies { _ret &= lw(msp, &policy, &v, Some(Or)) }
lwOr(msp, policies, i, v, path, ret) ==
    IF i > Len(policies) THEN [msp EXCEPT !.ret = IF ret THEN "true" ELSE "false"]
    ELSE LET r == lw(msp, policies[i], v, "Or", Append(path, i))
         IN IF r.ret = "panic" THEN r
            ELSE lwOr(r, policies, i + 1, v, path, ret /\ r.ret = "true")

lw(msp0, p, v, parent, path) ==
    LET msp == Entered(msp0, p, v, parent, path)
    IN CASE p.kind = "String" ->
              [msp EXCEPT !.m = <<v>> \o @, !.pi = <<p.attr>> \o @, !.ret = "true"]
         [] p.kind = "Object" -> lw(msp, p.value, v, p.type, path)
         [] p.kind = "Array" ->
              LET len == Len(p.policies)
              IN IF len < 2 THEN [msp EXCEPT !.ret = "panic"]
                 ELSE CASE parent = "Or" -> lwOr(msp, p.policies, 1, v, path, TRUE)
                        [] parent = "And" ->
                             IF len # 2 THEN [msp EXCEPT !.ret = "panic"]
                             ELSE LET v_tmp_right == AndRight(v, msp.c)
                                      v_tmp_left == AndLeft(v, msp.c)
                                      msp1 == [msp EXCEPT !.c = @ + 1]
                                      first == lw(msp1, p.policies[1], v_tmp_right, "And",
                                                  Append(path, 1))
                                  IN IF first.ret # "true" THEN first
                                     ELSE lw(first, p.policies[2], v_tmp_left, "And",
                                             Append(path, 2))
                        [] OTHER -> [msp EXCEPT !.ret = "false"]

\* permutation::sort: the indices of pi in ascending order of their keys, ties kept
\* in their original order (a stable sort).
RECURSIVE SortIndices(_, _)
SortIndices(pi, done) ==
    IF Len(done) = Len(pi) THEN done
    ELSE LET rest == {i \in 1..Len(pi) : \A k \in 1..Len(done) : done[k] # i}
             next == CHOOSE i \in rest : \A j \in rest :
                         \/ NameOrd[pi[i]] < NameOrd[pi[j]]
                         \/ NameOrd[pi[i]] = NameOrd[pi[j]] /\ i <= j
         IN SortIndices(pi, Append(done, next))

apply_slice(perm, s) == [i \in 1..Len(perm) |-> s[perm[i]]]

calculate_msp_pi_only(p) ==
    LET msp == lw(NewMsp, p, <<PLUS>>, "None", <<>>)
    IN IF msp.ret = "panic" THEN Panic("lw") @@ [calls |-> msp.calls]
       ELSE IF msp.ret = "true"
       THEN LET m == [i \in 1..Len(msp.m) |-> resize(msp.m[i], msp.c, ZERO)]
                permutation == SortIndices(msp.pi, <<>>)
            IN Ok([m |-> m,
                   pi |-> apply_slice(permutation, msp.pi),
                   c |-> msp.c]) @@ [calls |-> msp.calls]
       ELSE Err("lewko waters algorithm failed =(") @@ [calls |-> msp.calls]

calculate_msp(p) ==
    LET msp == lw(NewMsp, p, <<PLUS>>, "None", <<>>)
    IN IF msp.ret = "panic" THEN Panic("lw") @@ [calls |-> msp.calls]
       ELSE IF msp.ret = "true"
       THEN LET m == [i \in 1..Len(msp.m) |-> resize(msp.m[i], msp.c, ZERO)]
                permutation == SortIndices(msp.pi, <<>>)
            IN Ok([m |-> apply_slice(permutation, m),
                   pi |-> apply_slice(permutation, msp.pi),
                   c |-> msp.c]) @@ [calls |-> msp.calls]
       ELSE Err("lewko waters algorithm failed =(") @@ [calls |-> msp.calls]

\* ------------------------------------------------- policies given to the compiler
MaxNodes == 5
MspNames == {"A", "B"}
GateTypes == {"And", "Or"}

\* All sequences of trees whose node counts sum to n, and all trees of n nodes.
RECURSIVE TreesOfSize(_)
RECURSIVE Forests(_)
Forests(n) ==
    IF n = 0 THEN {<<>>}
    ELSE UNION {{<<t>> \o f : t \in TreesOfSize(k), f \in Forests(n - k)} : k \in 1..n}
TreesOfSize(n) ==
    IF n = 1 THEN {String(a) : a \in MspNames}
    ELSE {Gate(ty, cs) : ty \in GateTypes, cs \in Forests(n - 1)}

\* The policy of the compiler's own test, A and (D or (B and C)).
TestPolicy ==
    Gate("And", <<String("A"),
                  Gate("Or", <<String("D"), Gate("And", <<String("B"), String("C")>>)>>)>>)

\* Trees the type admits and no parser builds: a wrapped leaf, a bare array, a gate
\* marked Leaf.
OddPolicies ==
    { Object("Leaf", String("A")),
      Array(<<String("A"), String("B")>>),
      Object("Leaf", Array(<<String("A"), String("B")>>)),
      Gate("Or", <<String("A"), Object("Leaf", Array(<<String("A"), String("B")>>))>>),
      Gate("Or", <<String("B"), String("A"), String("B"), String("A")>>) }

MspPolicies == UNION {TreesOfSize(n) : n \in 1..MaxNodes} \cup {TestPolicy} \cup OddPolicies

\* ------------------------------------------------------------ the compiler's runs
PolIdle ==
    /\ polLang = None /\ polIn = None /\ polTree = None
    /\ polOutLang = None /\ polOut = None /\ polBack = None

AbeIdle ==
    /\ pk = None /\ msk = None /\ kgIn = None /\ skRes = None
    /\ encIn = None /\ ctRes = None /\ decRes = None

InitMsp == mspIn \in MspPolicies /\ mspOut = None /\ PolIdle /\ AbeIdle

CalculateMsp ==
    /\ mspOut = None
    /\ mspOut' = calculate_msp(mspIn)
    /\ UNCHANGED <<mspIn, polVars, abeVars>>

NextMsp == CalculateMsp

SpecMsp == InitMsp /\ [][NextMsp]_vars

\* ------------------------------------------------------------ pest/mod.rs
\* A policy string is the sequence of its tokens: punctuation, a double-quoted string,
\* or a bare word (a keyword or an unquoted identifier).
Punct(c) == [t |-> c, s |-> ""]
QStr(s) == [t |-> "string", s |-> s]
Word(s) == [t |-> "word", s |-> s]
LBrace == Punct("{")
RBrace == Punct("}")
LBracket == Punct("[")
RBracket == Punct("]")
LParen == Punct("(")
RParen == Punct(")")
Colon == Punct(":")
Comma == Punct(",")

Languages == {"JsonPolicy", "HumanPolicy"}
Keywords == {"and", "or"}
GateName(type) == IF type = "And" THEN "and" ELSE "or"
GateType(name) == IF name = "and" THEN "And" ELSE "Or"

\* contents.join(sep)
RECURSIVE Join(_, _)
Join(contents, sep) ==
    IF Len(contents) = 0 THEN <<>>
    ELSE IF Len(contents) = 1 THEN contents[1]
    ELSE contents[1] \o sep \o Join(Tail(contents), sep)

ParseFail == [ok |-> FALSE, val |-> None, rest |-> <<>>]
Parsed(val, rest) == [ok |-> TRUE, val |-> val, rest |-> rest]
StartsWith(ts, tok) == Len(ts) > 0 /\ Head(ts) = tok

\* The human grammar: or-expressions of and-expressions of terms; a term is an
\* attribute literal (quoted, or a bare word that is no keyword) or a parenthesized
\* expression; `and` binds tighter than `or`.
RECURSIVE HumanOr(_)
RECURSIVE HumanOrRest(_, _)
RECURSIVE HumanAnd(_)
RECURSIVE HumanAndRest(_, _)
RECURSIVE HumanTerm(_)
HumanTerm(ts) ==
    IF Len(ts) = 0 THEN ParseFail
    ELSE LET tok == Head(ts)
         IN IF tok.t = "string" /\ tok.s # "" THEN Parsed(String(tok.s), Tail(ts))
            ELSE IF tok.t = "word" /\ tok.s \notin Keywords THEN Parsed(String(tok.s), Tail(ts))
            ELSE IF tok = LParen
            THEN LET r == HumanOr(Tail(ts))
                 IN IF r.ok /\ StartsWith(r.rest, RParen) THEN Parsed(r.val, Tail(r.rest))
                    ELSE ParseFail
            ELSE ParseFail
HumanAndRest(acc, ts) ==
    IF StartsWith(ts, Word("and"))
    THEN LET r == HumanTerm(Tail(ts))
         IN IF r.ok THEN HumanAndRest(Append(acc, r.val), r.rest) ELSE ParseFail
    ELSE Parsed(IF Len(acc) = 1 THEN acc[1] ELSE Gate("And", acc), ts)
HumanAnd(ts) ==
    LET r == HumanTerm(ts) IN IF r.ok THEN HumanAndRest(<<r.val>>, r.rest) ELSE ParseFail
HumanOrRest(acc, ts) ==
    IF StartsWith(ts, Word("or"))
    THEN LET r == HumanAnd(Tail(ts))
         IN IF r.ok THEN HumanOrRest(Append(acc, r.val), r.rest) ELSE ParseFail
    ELSE Parsed(IF Len(acc) = 1 THEN acc[1] ELSE Gate("Or", acc), ts)
HumanOr(ts) ==
    LET r == HumanAnd(ts) IN IF r.ok THEN HumanOrRest(<<r.val>>, r.rest) ELSE ParseFail

\* The JSON grammar: {"name": <string>} is a leaf; {"name": <gate>, "children": [...]}
\* is a gate of at least two children; the two keys may be written unquoted.
IsKey(tok, key) == tok = QStr(key) \/ tok = Word(key)
RECURSIVE JsonValue(_)
RECURSIVE JsonChildren(_, _)
JsonChildren(acc, ts) ==
    LET r == JsonValue(ts)
    IN IF ~r.ok THEN ParseFail
       ELSE IF StartsWith(r.rest, Comma) THEN JsonChildren(Append(acc, r.val), Tail(r.rest))
       ELSE IF StartsWith(r.rest, RBracket) THEN Parsed(Append(acc, r.val), Tail(r.rest))
       ELSE ParseFail
JsonValue(ts) ==
    IF Len(ts) < 5 THEN ParseFail
    ELSE IF ~(ts[1] = LBrace /\ IsKey(ts[2], "name") /\ ts[3] = Colon /\ ts[4].t = "string")
    THEN ParseFail
    ELSE LET name == ts[4].s
             after == SubSeq(ts, 5, Len(ts))
         IN IF StartsWith(after, RBrace)
            THEN IF name = "" THEN ParseFail ELSE Parsed(String(name), Tail(after))
            ELSE IF /\ Len(after) >= 4
                    /\ after[1] = Comma /\ IsKey(after[2], "children")
                    /\ after[3] = Colon /\ after[4] = LBracket
            THEN LET r == JsonChildren(<<>>, SubSeq(after, 5, Len(after)))
                 IN IF /\ r.ok /\ name \in Keywords /\ Len(r.val) >= 2
                       /\ StartsWith(r.rest, RBrace)
                    THEN Parsed(Gate(GateType(name), r.val), Tail(r.rest))
                    ELSE ParseFail
            ELSE ParseFail

parse(policy, language) ==
    LET r == IF language = "JsonPolicy" THEN JsonValue(policy) ELSE HumanOr(policy)
    IN IF r.ok /\ r.rest = <<>> THEN Ok(r.val) ELSE Err("PolicyParse")

\* Children of a human gate (pest/mod.rs 79-83), without the parentheses.
HumanArrayBare(contents, parent) ==
    CASE parent = "And" -> Ok(Join(contents, <<Word("and")>>))
      [] parent = "Or" -> Ok(Join(contents, <<Word("or")>>))
      [] OTHER -> Panic("children without parent")

HumanArray(contents, parent) ==
    CASE parent = "And" -> Ok(<<LParen>> \o Join(contents, <<Word("and")>>) \o <<RParen>>)
      [] parent = "Or" -> Ok(<<LParen>> \o Join(contents, <<Word("or")>>) \o <<RParen>>)
      [] OTHER -> Panic("children without parent")

RECURSIVE serialize_policy(_, _, _)
serialize_policy(val, language, parent) ==
    LET SerializeAll(a) == [i \in 1..Len(a) |-> serialize_policy(a[i], language, "None")]
        Strings(rs) == [i \in 1..Len(rs) |-> rs[i].val]
        Aborted(rs) == \E i \in 1..Len(rs) : rs[i].tag # "Ok"
        FirstAbort(rs) == rs[CHOOSE i \in 1..Len(rs) :
                                /\ rs[i].tag # "Ok"
                                /\ \A j \in 1..(i - 1) : rs[j].tag = "Ok"]
    IN IF language = "JsonPolicy"
       THEN CASE val.kind = "Object" ->
                   LET inner == serialize_policy(val.value, language, "None")
                   IN IF inner.tag # "Ok" \/ val.type = "Leaf" THEN inner
                      ELSE Ok(<<LBrace, QStr("name"), Colon, QStr(GateName(val.type)), Comma>>
                              \o inner.val \o <<RBrace>>)
              [] val.kind = "Array" ->
                   LET contents == SerializeAll(val.policies)
                   IN IF Aborted(contents) THEN FirstAbort(contents)
                      ELSE Ok(<<QStr("children"), Colon, LBracket>>
                              \o Join(Strings(contents), <<Comma>>) \o <<RBracket>>)
              [] val.kind = "String" ->
                   Ok(<<LBrace, QStr("name"), Colon, QStr(val.attr), RBrace>>)
       ELSE CASE val.kind = "Object" -> serialize_policy(val.value, language, val.type)
              [] val.kind = "Array" ->
                   LET contents == SerializeAll(val.policies)
                   IN IF Aborted(contents) THEN FirstAbort(contents)
                      ELSE HumanArray(Strings(contents), parent)
              [] val.kind = "String" -> Ok(<<Word(val.attr)>>)

\* ------------------------------------------------------- policy strings to parse
RECURSIVE ValidTree(_)
ValidTree(p) ==
    \/ p.kind = "String"
    \/ /\ p.kind = "Object" /\ p.value.kind = "Array" /\ Len(p.value.policies) >= 2
       /\ \A i \in 1..Len(p.value.policies) : ValidTree(p.value.policies[i])

ValidTrees == {p \in UNION {TreesOfSize(n) : n \in 1..MaxNodes} : ValidTree(p)}

\* The ways a policy is written down: JSON with quoted or unquoted keys; human with
\* quoted or bare attributes, every gate parenthesized or only where needed.
WriteLeaf(a, quoted) == IF quoted THEN QStr(a) ELSE Word(a)
RECURSIVE WriteJson(_, _)
WriteJson(p, quoted) ==
    IF p.kind = "String"
    THEN <<LBrace, WriteLeaf("name", quoted), Colon, QStr(p.attr), RBrace>>
    ELSE <<LBrace, WriteLeaf("name", quoted), Colon, QStr(GateName(p.type)), Comma,
           WriteLeaf("children", quoted), Colon, LBracket>>
         \o Join([i \in 1..Len(p.value.policies) |-> WriteJson(p.value.policies[i], quoted)],
                 <<Comma>>)
         \o <<RBracket, RBrace>>
RECURSIVE WriteHuman(_, _, _, _)
WriteHuman(p, quoted, full, outer) ==
    IF p.kind = "String" THEN <<WriteLeaf(p.attr, quoted)>>
    ELSE LET body == Join([i \in 1..Len(p.value.policies) |->
                              WriteHuman(p.value.policies[i], quoted, full, p.type)],
                          <<Word(GateName(p.type))>>)
         IN IF full \/ outer = "And" \/ (outer = "Or" /\ p.type = "Or")
            THEN <<LParen>> \o body \o <<RParen>>
            ELSE body

PolicyStrings ==
    {[lang |-> "JsonPolicy", text |-> WriteJson(p, q)] : p \in ValidTrees, q \in BOOLEAN}
    \cup {[lang |-> "HumanPolicy", text |-> WriteHuman(p, q, f, "None")] :
              p \in ValidTrees, q \in BOOLEAN, f \in BOOLEAN}
    \cup {[lang |-> "HumanPolicy", text |-> <<Word("A"), Word("and")>>],
          [lang |-> "JsonPolicy", text |-> <<LBrace, QStr("name"), Colon, QStr("xor"), Comma,
                QStr("children"), Colon, LBracket>> \o WriteJson(String("A"), TRUE)
                \o <<Comma>> \o WriteJson(String("B"), TRUE) \o <<RBracket, RBrace>>]}

\* ------------------------------------------------------------ the serializer's runs
MspIdle == mspIn = None /\ mspOut = None

InitPolicy ==
    /\ \E p \in PolicyStrings : polLang = p.lang /\ polIn = p.text
    /\ polTree = None /\ polOutLang = None /\ polOut = None /\ polBack = None
    /\ MspIdle /\ AbeIdle

ParsePolicy ==
    /\ polTree = None
    /\ polTree' = parse(polIn, polLang)
    /\ UNCHANGED <<polLang, polIn, polOutLang, polOut, polBack, mspVars, abeVars>>

SerializePolicy ==
    /\ polTree.tag = "Ok" /\ polOut = None
    /\ \E language \in Languages :
          /\ polOutLang' = language
          /\ polOut' = serialize_policy(polTree.val, language, "None")
    /\ UNCHANGED <<polLang, polIn, polTree, polBack, mspVars, abeVars>>

ReparsePolicy ==
    /\ polOut.tag = "Ok" /\ polBack = None
    /\ polBack' = parse(polOut.val, polOutLang)
    /\ UNCHANGED <<polLang, polIn, polTree, polOutLang, polOut, mspVars, abeVars>>

NextPolicy == ParsePolicy \/ SerializePolicy \/ ReparsePolicy

SpecPolicy == InitPolicy /\ [][NextPolicy]_vars

\* ------------------------------------------------------------ Fr and Gt
\* Fr is the scalar field, here of a small prime order; an element of Gt is written
\* as its exponent over a fixed generator of the group, so the group operation adds
\* exponents, pow multiplies them and the identity is 0.
FrOrder == 3
Fr == 0..(FrOrder - 1)
Gt == 0..(FrOrder - 1)
FrOne == 1 % FrOrder
FrAdd(a, b) == (a + b) % FrOrder
FrMul(a, b) == (a * b) % FrOrder
FrNeg(a) == (FrOrder - (a % FrOrder)) % FrOrder
FrSub(a, b) == FrAdd(a, FrNeg(b))
\* Fr::inverse: None for zero.
FrInverse(a) ==
    IF a % FrOrder = 0 THEN None
    ELSE Ok(CHOOSE b \in Fr : FrMul(a, b) = FrOne)
GtOne == 0
GtMul(x, y) == (x + y) % FrOrder
GtPow(x, k) == (x * k) % FrOrder

\* utils::aes: the envelope opens under the key it was sealed with and no other.
encrypt_symmetric(key, plaintext) == Ok([key |-> key, data |-> plaintext])
decrypt_symmetric(key, ct) ==
    IF ct.key = key THEN Ok(ct.data) ELSE Err("SymmetricFailure")

\* ------------------------------------------------------------ utils::secretsharing
\* A leaf's label is its attribute name and its position among the leaves of the
\* policy, name_<k>; remove_index strips the position.
LeafIndexes == 0..(2 * MaxNodes)
Label(name, k) == name \o "_" \o ToString(k)
remove_index(label) ==
    CHOOSE n \in Names : \E k \in LeafIndexes : Label(n, k) = label

IsGate(p) ==
    /\ p.kind = "Object" /\ p.type \in GateTypes
    /\ p.value.kind = "Array" /\ Len(p.value.policies) >= 2
Children(p) == p.value.policies

RECURSIVE WellFormed(_)
WellFormed(p) ==
    \/ p.kind = "String"
    \/ IsGate(p) /\ \A i \in 1..Len(Children(p)) : WellFormed(Children(p)[i])

RECURSIVE SumSeq(_)
SumSeq(s) == IF Len(s) = 0 THEN 0 ELSE Head(s) + SumSeq(Tail(s))
RECURSIVE Concat(_)
Concat(ss) == IF Len(ss) = 0 THEN <<>> ELSE Head(ss) \o Concat(Tail(ss))

RECURSIVE LeafCount(_)
LeafCount(p) ==
    IF p.kind = "String" THEN 1
    ELSE SumSeq([i \in 1..Len(Children(p)) |-> LeafCount(Children(p)[i])])

\* The threshold of a gate, and the number of random coefficients a subtree draws.
Threshold(p) == IF p.type = "And" THEN Len(Children(p)) ELSE 1
RECURSIVE CoeffCount(_)
CoeffCount(p) ==
    IF p.kind = "String" THEN 0
    ELSE (Threshold(p) - 1) + SumSeq([i \in 1..Len(Children(p)) |-> CoeffCount(Children(p)[i])])

\* The first leaf position, and the first random coefficient, of child i of a gate.
ChildIndex(p, i, idx) == idx + SumSeq([j \in 1..(i - 1) |-> LeafCount(Children(p)[j])])
ChildRnd(p, i, used) ==
    used + (Threshold(p) - 1) + SumSeq([j \in 1..(i - 1) |-> CoeffCount(Children(p)[j])])

RECURSIVE FrPow(_, _)
FrPow(x, n) == IF n = 0 THEN FrOne ELSE FrMul(x, FrPow(x, n - 1))

\* P(x) = secret + a_1 x + ... + a_(t-1) x^(t-1)
Poly(secret, coeffs, x) ==
    (secret + SumSeq([j \in 1..Len(coeffs) |-> FrMul(coeffs[j], FrPow(x, j))])) % FrOrder

RECURSIVE GenShares(_, _, _, _, _)
GenShares(secret, p, rnd, idx, used) ==
    IF p.kind = "String" THEN << <<Label(p.attr, idx), secret>> >>
    ELSE LET coeffs == [j \in 1..(Threshold(p) - 1) |-> rnd[used + j]]
         IN Concat([i \in 1..Len(Children(p)) |->
                       GenShares(Poly(secret, coeffs, i), Children(p)[i], rnd,
                                 ChildIndex(p, i, idx), ChildRnd(p, i, used))])

\* gen_shares_policy(secret, tree): one labelled share per leaf; absent for a
\* malformed tree. rnd are the coefficients the gates draw.
gen_shares_policy(secret, p, rnd) ==
    IF WellFormed(p) THEN Ok(GenShares(secret, p, rnd, 0, 0)) ELSE None

RECURSIVE Pruned(_, _, _)
Pruned(available, p, idx) ==
    IF p.kind = "String"
    THEN IF p.attr \in available
         THEN [sat |-> TRUE, cover |-> << <<p.attr, Label(p.attr, idx)>> >>]
         ELSE [sat |-> FALSE, cover |-> <<>>]
    ELSE LET rs == [i \in 1..Len(Children(p)) |->
                       Pruned(available, Children(p)[i], ChildIndex(p, i, idx))]
         IN IF p.type = "And"
            THEN IF \A i \in 1..Len(rs) : rs[i].sat
                 THEN [sat |-> TRUE, cover |-> Concat([i \in 1..Len(rs) |-> rs[i].cover])]
                 ELSE [sat |-> FALSE, cover |-> <<>>]
            ELSE IF \E i \in 1..Len(rs) : rs[i].sat
                 THEN rs[CHOOSE i \in 1..Len(rs) :
                            rs[i].sat /\ \A j \in 1..(i - 1) : ~rs[j].sat]
                 ELSE [sat |-> FALSE, cover |-> <<>>]

\* calc_pruned(available, tree): whether the names satisfy the tree, and the cover of
\* (bare name, labelled name) pairs, the first satisfied child under an Or.
calc_pruned(attr, p) ==
    IF WellFormed(p)
    THEN LET r == Pruned({attr[i] : i \in 1..Len(attr)}, p, 0) IN Ok(<<r.sat, r.cover>>)
    ELSE Err("PolicyShape")

\* The Lagrange factor at 0 of point i among the points 1..n.
RECURSIVE Lagrange(_, _, _)
Lagrange(i, n, j) ==
    IF j > n THEN FrOne
    ELSE IF j = i THEN Lagrange(i, n, j + 1)
    ELSE FrMul(FrMul(FrNeg(j), FrInverse(FrSub(i, j)).val), Lagrange(i, n, j + 1))

RECURSIVE Coefficients(_, _, _)
Coefficients(p, coeff, idx) ==
    IF p.kind = "String" THEN << <<Label(p.attr, idx), coeff>> >>
    ELSE Concat([i \in 1..Len(Children(p)) |->
                    Coefficients(Children(p)[i],
                                 IF p.type = "And"
                                 THEN FrMul(coeff, Lagrange(i, Len(Children(p)), 1))
                                 ELSE coeff,
                                 ChildIndex(p, i, idx))])

\* calc_coefficients(tree, top): the recovery coefficient of every leaf.
calc_coefficients(p, coeff) ==
    IF WellFormed(p) THEN Ok(Coefficients(p, coeff, 0)) ELSE None

\* ------------------------------------------------------------ yct14/mod.rs
Public(g) == [type |-> "Public", val |-> g]
Private(fr) == [type |-> "Private", val |-> fr]
Yct14Attribute(name, node) == [name |-> name, node |-> node]

\* The first element of a sequence satisfying a test: filter(..).nth(0).
Matching(attributes, name) == SelectSeq(attributes, LAMBDA a : a.name = name)

\* Yct14Attribute::new, with the scalar si it samples.
NewAttribute(name, g, si) ==
    <<Yct14Attribute(name, Public(GtPow(g, si))), Yct14Attribute(name, Private(si))>>

master_get_private(key, attribute) ==
    LET found == Matching(key.attributes, attribute)
    IN IF Len(found) = 0 THEN Err("no private key found")
       ELSE IF found[1].node.type # "Private" THEN Panic("no private node value")
       ELSE Ok(found[1].node.val)

secret_get_private(sk, attribute) ==
    LET found == Matching(sk.du, attribute)
    IN IF Len(found) = 0 THEN Err("no private key found")
       ELSE IF found[1].node.type # "Private" THEN Panic("no private node value")
       ELSE Ok(found[1].node.val)

get_public(ct, attribute) ==
    LET found == Matching(ct.attributes, attribute)
    IN IF Len(found) = 0 THEN Err("no private key found")
       ELSE IF found[1].node.type # "Public" THEN Panic("no public node value")
       ELSE Ok(found[1].node.val)

\* A private_from that returns an error for a scalar without an inverse.
private_from_checked(input, key) ==
    LET si == master_get_private(key, input[1])
    IN IF si.tag # "Ok" THEN si
       ELSE IF FrInverse(si.val) = None THEN Err("FieldInverse")
       ELSE Ok(Yct14Attribute(input[1], Private(FrMul(input[2], FrInverse(si.val).val))))

\* Yct14Attribute::private_from((name, share), msk): share * si^-1, the inverse unwrapped.
private_from(input, key) ==
    LET si == master_get_private(key, input[1])
    IN IF si.tag # "Ok" THEN si
       ELSE IF FrInverse(si.val) = None THEN Panic("unwrap of None: inverse")
       ELSE Ok(Yct14Attribute(input[1], Private(FrMul(input[2], FrInverse(si.val).val))))

\* Yct14Attribute::public_from(name, pk, k): the first entry of that name raised to k,
\* unwrapped.
public_from(name, key, k) ==
    LET found == Matching(key.attributes, name)
    IN IF Len(found) = 0 THEN Panic("unwrap of None: public_from")
       ELSE IF found[1].node.type # "Public" THEN Panic("attribute has no public node value")
       ELSE Ok(Yct14Attribute(name, Public(GtPow(found[1].node.val, k))))

\* setup(attributes), with the scalars s, g and si it samples.
setup(attributes, s, g, si) ==
    LET pairs == [i \in 1..Len(attributes) |-> NewAttribute(attributes[i], g, si[i])]
    IN << [g |-> GtPow(g, s), attributes |-> [i \in 1..Len(pairs) |-> pairs[i][1]]],
          [s |-> s, attributes |-> [i \in 1..Len(pairs) |-> pairs[i][2]]] >>

\* The first result of a sequence that is not Ok, if any.
AnyNotOk(rs, tag) == \E i \in 1..Len(rs) : rs[i].tag = tag
FirstNotOk(rs, tag) ==
    rs[CHOOSE i \in 1..Len(rs) : rs[i].tag = tag /\ \A j \in 1..(i - 1) : rs[j].tag # tag]

\* keygen(msk, policy, language), with the coefficients rnd that gen_shares_policy
\* samples. A share whose attribute the master key lacks is printed and skipped. The
\* result carries the shares that were generated.
keygen(key, policy, language, rnd) ==
    LET pol == parse(policy, language)
    IN IF pol.tag # "Ok" THEN pol @@ [shares |-> <<>>]
       ELSE LET shares == gen_shares_policy(key.s, pol.val, rnd)
            IN IF shares = None
               THEN Err("could not generate shares during keygen()") @@ [shares |-> <<>>]
               ELSE LET made == [i \in 1..Len(shares.val) |->
                                    private_from(<<remove_index(shares.val[i][1]),
                                                   shares.val[i][2]>>, key)]
                        pushed == SelectSeq(made, LAMBDA r : r.tag = "Ok")
                    IN IF AnyNotOk(made, "Panic")
                       THEN FirstNotOk(made, "Panic") @@ [shares |-> shares.val]
                       ELSE Ok([policy |-> <<policy, language>>,
                                du |-> [i \in 1..Len(pushed) |-> pushed[i].val]])
                            @@ [shares |-> shares.val]

\* encrypt past its two emptiness checks (mod.rs 303-318), with the scalar k it samples.
encrypt_nonempty(key, attributes, plaintext, k) ==
    LET _cs == GtPow(key.g, k)
        attrs == [i \in 1..Len(attributes) |-> public_from(attributes[i], key, k)]
    IN IF AnyNotOk(attrs, "Panic") THEN FirstNotOk(attrs, "Panic")
       ELSE LET sealed == encrypt_symmetric(_cs, plaintext)
            IN IF sealed.tag # "Ok" THEN sealed
               ELSE Ok([attributes |-> [i \in 1..Len(attrs) |-> attrs[i].val],
                        ct |-> sealed.val])

encrypt_attributes_checked(key, attributes, plaintext, k) ==
    IF Len(attributes) = 0 THEN Err("attributes empty")
    ELSE encrypt_nonempty(key, attributes, plaintext, k)

encrypt(key, attributes, plaintext, k) ==
    IF Len(attributes) = 0 THEN Err("attributes empty")
    ELSE IF Len(plaintext) = 0 THEN Err("plaintext empty")
    ELSE encrypt_nonempty(key, attributes, plaintext, k)

\* One round of decrypt's loop (mod.rs 346-354): the three unwrapped lookups of a cover
\* leaf and the factor z^coeff.
CoverFactor(sk, ct, coeff_list, _attr) ==
    LET u == get_public(ct, _attr[1])
        d == secret_get_private(sk, _attr[1])
        coeff == SelectSeq(coeff_list, LAMBDA a : a[1] = _attr[2])
    IN IF u.tag # "Ok" \/ d.tag # "Ok" \/ Len(coeff) = 0 THEN Panic("unwrap")
       ELSE Ok([label |-> _attr[2], d |-> d.val,
                factor |-> GtPow(GtPow(u.val, d.val), coeff[1][2])])

RECURSIVE GtProduct(_)
GtProduct(fs) == IF Len(fs) = 0 THEN GtOne ELSE GtMul(Head(fs).val.factor, GtProduct(Tail(fs)))

\* decrypt once the policy is parsed and pruned (mod.rs 342-356). The result carries
\* whether the AEAD was opened and the key component used for each cover leaf.
decrypt_matched(sk, ct, policy_value, _list) ==
    LET coeff_list == calc_coefficients(policy_value, FrOne)
        factors == [i \in 1..Len(_list) |-> CoverFactor(sk, ct, coeff_list.val, _list[i])]
    IN IF coeff_list = None THEN Panic("unwrap of None: calc_coefficients")
                                 @@ [opened |-> FALSE, used |-> <<>>]
       ELSE IF AnyNotOk(factors, "Panic")
       THEN FirstNotOk(factors, "Panic") @@ [opened |-> FALSE, used |-> <<>>]
       ELSE decrypt_symmetric(GtProduct(factors), ct.ct)
            @@ [opened |-> TRUE,
                used |-> [i \in 1..Len(factors) |->
                             [label |-> factors[i].val.label, d |-> factors[i].val.d]]]

NotOpened(r) == r @@ [opened |-> FALSE, used |-> <<>>]

decrypt_unmatched(sk, ct) ==
    LET attr == [i \in 1..Len(ct.attributes) |-> ct.attributes[i].name]
        policy_value == parse(sk.policy[1], sk.policy[2])
    IN IF policy_value.tag # "Ok" THEN NotOpened(policy_value)
       ELSE LET _p == calc_pruned(attr, policy_value.val)
            IN IF _p.tag # "Ok" THEN NotOpened(_p)
               ELSE decrypt_matched(sk, ct, policy_value.val, _p.val[2])

decrypt(sk, ct) ==
    LET attr == [i \in 1..Len(ct.attributes) |-> ct.attributes[i].name]
        policy_value == parse(sk.policy[1], sk.policy[2])
    IN IF policy_value.tag # "Ok" THEN NotOpened(policy_value)
       ELSE LET _p == calc_pruned(attr, policy_value.val)
            IN IF _p.tag # "Ok" THEN NotOpened(_p)
               ELSE IF _p.val[1]
               THEN decrypt_matched(sk, ct, policy_value.val, _p.val[2])
               ELSE NotOpened(Err("Error in decrypt: attributes do not match policy."))

\* ------------------------------------------------------------ the scheme's inputs
MaxAttrs == 2
AbeNames == {"A", "B", "C"}
SetupLists == {<<"A", "B">>, <<"A">>}

Leaf(a) == String(a)
AbePolicies ==
    { [lang |-> "HumanPolicy", text |-> WriteHuman(Gate("Or", <<Leaf("A"), Leaf("B")>>), TRUE, FALSE, "None")],
      [lang |-> "JsonPolicy", text |-> WriteJson(Gate("Or", <<Leaf("A"), Leaf("C")>>), TRUE)],
      [lang |-> "HumanPolicy", text |-> WriteHuman(Gate("And", <<Leaf("A"), Leaf("B")>>), TRUE, FALSE, "None")],
      [lang |-> "HumanPolicy", text |-> WriteHuman(Gate("And", <<Leaf("A"), Leaf("A")>>), TRUE, FALSE, "None")],
      [lang |-> "HumanPolicy", text |-> WriteHuman(Gate("Or", <<Leaf("B"),
                    Gate("And", <<Leaf("A"), Leaf("B")>>)>>), TRUE, FALSE, "None")],
      [lang |-> "JsonPolicy", text |-> WriteJson(Gate("And", <<Leaf("C"), Leaf("A")>>), FALSE)],
      [lang |-> "JsonPolicy", text |-> WriteJson(Leaf("A"), TRUE)],
      [lang |-> "HumanPolicy", text |-> <<QStr("A"), Word("and")>>] }

\* The number of coefficients gen_shares_policy samples for a policy string.
RndNeeded(policy) ==
    LET pol == parse(policy.text, policy.lang)
    IN IF pol.tag = "Ok" THEN CoeffCount(pol.val) ELSE 0

AttributeLists == UNION {[1..n -> AbeNames] : n \in 0..MaxAttrs}
Plaintexts == {<<>>, <<104, 105>>}

\* ------------------------------------------------------------ the scheme's runs
Init ==
    /\ pk = None /\ msk = None /\ kgIn = None /\ skRes = None
    /\ encIn = None /\ ctRes = None /\ decRes = None
    /\ MspIdle /\ PolIdle

Setup ==
    /\ pk = None
    /\ \E attributes \in SetupLists, s \in Fr, g \in Gt :
          \E si \in [1..Len(attributes) -> Fr] :
             /\ pk' = setup(attributes, s, g, si)[1]
             /\ msk' = setup(attributes, s, g, si)[2]
    /\ UNCHANGED <<kgIn, skRes, encIn, ctRes, decRes, mspVars, polVars>>

Keygen ==
    /\ msk # None /\ skRes = None
    /\ \E policy \in AbePolicies :
          \E rnd \in [1..RndNeeded(policy) -> Fr] :
             /\ kgIn' = policy
             /\ skRes' = keygen(msk, policy.text, policy.lang, rnd)
    /\ UNCHANGED <<pk, msk, encIn, ctRes, decRes, mspVars, polVars>>

Encrypt ==
    /\ pk # None /\ ctRes = None
    /\ \E attributes \in AttributeLists, plaintext \in Plaintexts, k \in Fr :
          /\ encIn' = [attributes |-> attributes, plaintext |-> plaintext]
          /\ ctRes' = encrypt(pk, attributes, plaintext, k)
    /\ UNCHANGED <<pk, msk, kgIn, skRes, decRes, mspVars, polVars>>

Decrypt ==
    /\ skRes.tag = "Ok" /\ ctRes.tag = "Ok" /\ decRes = None
    /\ decRes' = decrypt(skRes.val, ctRes.val)
    /\ UNCHANGED <<pk, msk, kgIn, skRes, encIn, ctRes, mspVars, polVars>>

Next == Setup \/ Keygen \/ Encrypt \/ Decrypt

Spec == Init /\ [][Next]_vars

\* ------------------------------------------------------------------ C8
\* A policy string with its parentheses dropped and its quoted keys and attributes
\* written bare.
Unquote(tok) == IF tok.t = "string" THEN Word(tok.s) ELSE tok
Normalized(ts) ==
    LET kept == SelectSeq(ts, LAMBDA tok : tok # LParen /\ tok # RParen)
    IN [i \in 1..Len(kept) |-> Unquote(kept[i])]

Count(s, x) == Cardinality({i \in 1..Len(s) : s[i] = x})
SameBag(s, t) == Len(s) = Len(t) /\ \A i \in 1..Len(s) : Count(s, s[i]) = Count(t, s[i])
SelectCalls(calls, kind) == SelectSeq(calls, LAMBDA e : e.kind = kind)

\* The (attribute, row) pairs of the walk: one per leaf entered, its vector padded to c.
WalkRows(calls, c) ==
    LET leaves == SelectCalls(calls, "String")
    IN [i \in 1..Len(leaves) |-> <<leaves[i].attr, resize(leaves[i].v, c, ZERO)>>]

\* C6: for every policy calculate_msp accepts, pi is sorted ascending and m carries the
\* same permutation, so (pi[i], m[i]) are exactly the (attribute, padded row) pairs the
\* walk generated; A and (D or (B and C)) gives pi = [A,B,C,D],
\* m = [(1,1,0),(0,-1,1),(0,0,-1),(0,-1,0)], c = 3.
LsssCanonical ==
    mspOut.tag = "Ok" =>
        LET r == mspOut.val
        IN /\ Len(r.m) = Len(r.pi)
           /\ \A i \in 1..(Len(r.pi) - 1) : NameOrd[r.pi[i]] <= NameOrd[r.pi[i + 1]]
           /\ \A i \in 1..Len(r.m) : Len(r.m[i]) = r.c
           /\ SameBag([i \in 1..Len(r.pi) |-> <<r.pi[i], r.m[i]>>], WalkRows(mspOut.calls, r.c))
           /\ mspIn = TestPolicy =>
                  r = [pi |-> <<"A", "B", "C", "D">>,
                       m |-> << <<1, 1, 0>>, <<0, 0 - 1, 1>>, <<0, 0, 0 - 1>>, <<0, 0 - 1, 0>> >>,
                       c |-> 3]

\* A policy whose leaves the walk meets out of order and with different rows was compiled.
LsssCanonicalWitness ==
    /\ mspOut.tag = "Ok"
    /\ mspIn = Gate("And", <<String("B"), Gate("And", <<String("A"), String("B")>>)>>)
    /\ mspOut.val.pi = <<"A", "B", "B">>

\* ------------------------------------------------------------------ C7
RECURSIVE BadShape(_)
BadShape(p) ==
    CASE p.kind = "String" -> FALSE
      [] p.kind = "Array" -> \E i \in 1..Len(p.policies) : BadShape(p.policies[i])
      [] p.kind = "Object" ->
           \/ p.value.kind = "Array" /\ p.type \in {"And", "Or"} /\ Len(p.value.policies) < 2
           \/ p.value.kind = "Array" /\ p.type = "And" /\ Len(p.value.policies) # 2
           \/ BadShape(p.value)

\* C7: calculate_msp returns an Err value, and does not abort, for every policy tree with
\* an And gate of child count other than 2 or any gate of fewer than 2 children.
MspShapeIsReturnedError ==
    (mspOut # None /\ BadShape(mspIn)) => mspOut.tag = "Err"

\* ------------------------------------------------------------------ C10
IsAndArray(e) == e.kind = "Array" /\ e.parent = "And"
ChildCalls(calls, e, i) == SelectSeq(calls, LAMBDA f : f.path = Append(e.path, i))
Zeros(n) == [i \in 1..n |-> ZERO]

\* C10 as stated: at an And gate of two children entered with vector v and column count c,
\* the first child is compiled with pad(v, c) ++ [+1], the second with pad(v, c) ++ [-1],
\* and c is incremented by one before recursing.
AndStepBothFromV ==
    mspOut # None =>
        \A k \in 1..Len(mspOut.calls) :
            LET e == mspOut.calls[k]
                one == ChildCalls(mspOut.calls, e, 1)
                two == ChildCalls(mspOut.calls, e, 2)
            IN IsAndArray(e) =>
                 /\ \A j \in 1..Len(one) :
                        one[j].v = Append(resize(e.v, e.c, ZERO), PLUS) /\ one[j].c = e.c + 1
                 /\ \A j \in 1..Len(two) :
                        two[j].v = Append(resize(e.v, e.c, ZERO), MINUS) /\ two[j].c >= e.c + 1

\* C10 amended: the first child is compiled with pad(v, c) ++ [+1], the second with c zeros
\* followed by -1 (v's entries are not carried over), and c is incremented by one before
\* recursing.
AndStepSecondFromZeros ==
    mspOut # None =>
        \A k \in 1..Len(mspOut.calls) :
            LET e == mspOut.calls[k]
                one == ChildCalls(mspOut.calls, e, 1)
                two == ChildCalls(mspOut.calls, e, 2)
            IN IsAndArray(e) =>
                 /\ \A j \in 1..Len(one) :
                        one[j].v = Append(resize(e.v, e.c, ZERO), PLUS) /\ one[j].c = e.c + 1
                 /\ \A j \in 1..Len(two) :
                        two[j].v = Append(Zeros(e.c), MINUS) /\ two[j].c >= e.c + 1

\* An And gate entered with a vector that is not all zeros compiled both its children.
AndStepWitness ==
    /\ mspOut.tag = "Ok"
    /\ \E k \in 1..Len(mspOut.calls) :
           LET e == mspOut.calls[k]
           IN /\ IsAndArray(e)
              /\ resize(e.v, e.c, ZERO) # Zeros(e.c)
              /\ Len(ChildCalls(mspOut.calls, e, 1)) > 0
              /\ Len(ChildCalls(mspOut.calls, e, 2)) > 0

\* ------------------------------------------------------------ the scheme's claims
SeqNames(attributes) == {attributes[i].name : i \in 1..Len(attributes)}
Elems(s) == {s[i] : i \in 1..Len(s)}

RECURSIVE LeafNames(_)
LeafNames(p) ==
    IF p.kind = "String" THEN {p.attr}
    ELSE UNION {LeafNames(Children(p)[i]) : i \in 1..Len(Children(p))}

\* Whether a set of names satisfies a policy: And = all children, Or = at least one.
RECURSIVE Satisfies(_, _)
Satisfies(S, p) ==
    IF p.kind = "String" THEN p.attr \in S
    ELSE IF p.type = "And" THEN \A i \in 1..Len(Children(p)) : Satisfies(S, Children(p)[i])
    ELSE \E i \in 1..Len(Children(p)) : Satisfies(S, Children(p)[i])

KgTree == parse(kgIn.text, kgIn.lang)
KeygenRan == kgIn # None /\ skRes # None
EncryptRan == encIn # None /\ ctRes # None
PolicyOverU == KgTree.tag = "Ok" /\ LeafNames(KgTree.val) \subseteq SeqNames(msk.attributes)

\* ------------------------------------------------------------------ C1
\* C1: for every (pk, msk) of setup(U), every policy P over U (an attribute may occur at
\* several leaves), every list A of names of U that satisfies P and every non-empty m,
\* decrypt(keygen(msk, P), encrypt(pk, A, m)) returns exactly m.
KpAbeCorrectness ==
    (/\ decRes # None /\ PolicyOverU
     /\ Elems(encIn.attributes) \subseteq SeqNames(pk.attributes)
     /\ Satisfies(Elems(encIn.attributes), KgTree.val)
     /\ Len(encIn.plaintext) > 0) => (decRes.tag = "Ok" /\ decRes.val = encIn.plaintext)

\* ------------------------------------------------------------------ C2
SkTree == parse(skRes.val.policy[1], skRes.val.policy[2])

\* C2: if the names in ct.attributes do not satisfy sk's policy, decrypt(sk, ct) returns
\* the policy-mismatch error, never a plaintext, and does not open the AEAD.
PolicyMismatchSoundness ==
    (decRes # None /\ ~Satisfies(SeqNames(ctRes.val.attributes), SkTree.val)) =>
        /\ decRes.tag = "Err"
        /\ decRes.err = "Error in decrypt: attributes do not match policy."
        /\ ~decRes.opened

\* decrypt ran on a key for A and B and a ciphertext carrying only A.
PolicyMismatchWitness ==
    /\ decRes # None
    /\ SkTree.val = Gate("And", <<String("A"), String("B")>>)
    /\ SeqNames(ctRes.val.attributes) = {"A"}
    /\ decRes.tag = "Err"

\* ------------------------------------------------------------------ C3
\* C3: whenever the parsed policy has a leaf whose attribute has no entry in
\* msk.attributes, keygen fails: it never returns Ok with a secret key, which would miss
\* the component of that leaf.
KeygenRejectsUnknownAttribute ==
    (/\ KeygenRan /\ KgTree.tag = "Ok"
     /\ ~(LeafNames(KgTree.val) \subseteq SeqNames(msk.attributes))) => skRes.tag # "Ok"

\* ------------------------------------------------------------------ C4
\* C4: encrypt with a non-empty attribute list and a non-empty plaintext returns an error
\* value, without aborting and without a ciphertext, whenever some name has no entry in
\* pk.attributes.
EncryptReturnsErrorOnUnknownAttribute ==
    (/\ EncryptRan
     /\ Len(encIn.attributes) > 0 /\ Len(encIn.plaintext) > 0
     /\ ~(Elems(encIn.attributes) \subseteq SeqNames(pk.attributes))) => ctRes.tag = "Err"

\* ------------------------------------------------------------------ C5
\* C5: encrypt returns an error and no ciphertext whenever the attribute list or the
\* plaintext is empty, whatever the public key; the checks come before any attribute
\* lookup, so an empty plaintext with an attribute unknown to pk is still the empty-input
\* error.
EncryptRejectsEmptyInput ==
    (EncryptRan /\ (Len(encIn.attributes) = 0 \/ Len(encIn.plaintext) = 0)) =>
        /\ ctRes.tag = "Err"
        /\ ctRes.err = IF Len(encIn.attributes) = 0 THEN "attributes empty"
                       ELSE "plaintext empty"

\* encrypt was given an empty plaintext and an attribute the public key does not have.
EncryptRejectsEmptyInputWitness ==
    /\ EncryptRan
    /\ Len(encIn.plaintext) = 0
    /\ "C" \in Elems(encIn.attributes) /\ "C" \notin SeqNames(pk.attributes)
    /\ ctRes = Err("plaintext empty")

\* ------------------------------------------------------------------ C9
\* The key component keygen derives from the share labelled label: share * s_a^-1.
ShareOf(label) ==
    LET found == SelectSeq(skRes.shares, LAMBDA sh : sh[1] = label) IN found[1][2]
ComponentOf(label) ==
    FrMul(ShareOf(label), FrInverse(master_get_private(msk, remove_index(label)).val).val)

\* C9: for every leaf (bare_name, labeled_name) of the cover, the key component decrypt
\* combines with coeffs[labeled_name] is the one keygen derived from that same leaf's
\* share, also when the attribute name occurs at more than one leaf of the policy.
PerLeafKeyComponents ==
    (decRes # None /\ decRes.opened) =>
        \A i \in 1..Len(decRes.used) :
            decRes.used[i].d = ComponentOf(decRes.used[i].label)

\* ------------------------------------------------------------------ C11
\* A tree of leaves, Or gates of at least two children and And gates of exactly two.
RECURSIVE LsssShaped(_)
LsssShaped(p) ==
    \/ p.kind = "String"
    \/ /\ IsGate(p)
       /\ p.type = "And" => Len(Children(p)) = 2
       /\ \A i \in 1..Len(Children(p)) : LsssShaped(Children(p)[i])

RECURSIVE HasWideOr(_)
HasWideOr(p) ==
    CASE p.kind = "String" -> FALSE
      [] p.kind = "Array" -> \E i \in 1..Len(p.policies) : HasWideOr(p.policies[i])
      [] p.kind = "Object" ->
           \/ p.type = "Or" /\ p.value.kind = "Array" /\ Len(p.value.policies) > 2
           \/ HasWideOr(p.value)

NoRnd(p) == [j \in 1..CoeffCount(p) |-> 0]

\* C11 as stated: calculate_msp fails for every policy tree that contains an Or gate with
\* more than 2 children.
WideOrIsRejected ==
    (mspOut # None /\ HasWideOr(mspIn)) => mspOut.tag # "Ok"

\* C11 amended: the compiler takes Or gates of any child count of at least 2, as
\* gen_shares_policy does: for every tree of leaves, Or gates of at least 2 children and
\* And gates of exactly 2 that holds an Or gate with more than 2 children, calculate_msp
\* returns Ok with one row per leaf, every child of an Or gate compiled with the gate's own
\* vector.
WideOrIsCompiled ==
    (mspOut # None /\ LsssShaped(mspIn) /\ HasWideOr(mspIn)) =>
        /\ mspOut.tag = "Ok"
        /\ Len(mspOut.val.pi) = LeafCount(mspIn)
        /\ gen_shares_policy(FrOne, mspIn, NoRnd(mspIn)) # None
        /\ \A k \in 1..Len(mspOut.calls) :
              LET e == mspOut.calls[k]
              IN (e.kind = "Array" /\ e.parent = "Or") =>
                    \A f \in {mspOut.calls[j] : j \in 1..Len(mspOut.calls)} :
                        (Len(f.path) = Len(e.path) + 1
                         /\ SubSeq(f.path, 1, Len(e.path)) = e.path) => f.v = e.v

\* An Or gate of three children, one of them a gate, was compiled.
WideOrWitness ==
    /\ mspOut # None
    /\ mspOut.tag = "Ok"
    /\ LsssShaped(mspIn)
    /\ HasWideOr(mspIn)
    /\ LeafCount(mspIn) > 3
    /\ Len(mspOut.val.pi) = LeafCount(mspIn)

\* ------------------------------------------------------------------ C12
\* The names at the policy's leaves whose scalar in the master key is zero.
ZeroScalarLeaves ==
    {a \in LeafNames(KgTree.val) : master_get_private(msk, a) = Ok(0)}

\* C12: keygen returns an error value, and does not abort, when the master key's scalar
\* s_a of an attribute used at a policy leaf is zero in Fr, as it can be in every master
\* key that setup returns.
KeygenReturnsFieldInverse ==
    (KeygenRan /\ KgTree.tag = "Ok" /\ ZeroScalarLeaves # {}) => skRes.tag = "Err"

\* ------------------------------------------------------------------ C13
\* The sum of column j over the rows of a set.
RECURSIVE ColumnSum(_, _, _)
ColumnSum(m, rows, j) ==
    IF rows = {} THEN 0
    ELSE LET i == CHOOSE r \in rows : TRUE
         IN m[i][j] + ColumnSum(m, rows \ {i}, j)

\* The target vector (1, 0, ..., 0) of width c.
Target(c) == [j \in 1..c |-> IF j = 1 THEN 1 ELSE 0]

\* Whether some of the rows labelled with names of S sum column-wise to the target.
Reconstructs(msp, S) ==
    \E rows \in SUBSET {i \in 1..Len(msp.pi) : msp.pi[i] \in S} :
        \A j \in 1..msp.c : ColumnSum(msp.m, rows, j) = Target(msp.c)[j]

\* C13: the matrix calculate_msp returns realizes the policy's access structure: for every
\* policy of leaves, Or gates of at least 2 children and And gates of exactly 2, and every
\* attribute set S, S satisfies the policy if and only if some subset of the rows whose
\* labels are in S sums column-wise to the target vector (1, 0, ..., 0) of width c.
MspRealizesPolicy ==
    (mspOut # None /\ LsssShaped(mspIn)) =>
        /\ mspOut.tag = "Ok"
        /\ Len(mspOut.val.m) = Len(mspOut.val.pi)
        /\ \A i \in 1..Len(mspOut.val.m) : Len(mspOut.val.m[i]) = mspOut.val.c
        /\ \A S \in SUBSET LeafNames(mspIn) :
              Satisfies(S, mspIn) <=> Reconstructs(mspOut.val, S)

\* An And gate over an Or gate was compiled, and of two sets that name rows of the matrix
\* one reconstructs the target and the other does not.
MspRealizesPolicyWitness ==
    /\ mspOut # None
    /\ mspOut.tag = "Ok"
    /\ mspIn = Gate("And", <<String("A"), Gate("Or", <<String("B"), String("A")>>)>>)
    /\ Reconstructs(mspOut.val, {"A"})
    /\ ~Reconstructs(mspOut.val, {"B"})
    /\ mspOut.val.c = 2

\* ------------------------------------------------------------------ C14
\* The cover decrypt computes from the ciphertext's names and the key's policy, and the
\* coefficient list it looks the cover's labels up in.
DecCover ==
    calc_pruned([i \in 1..Len(ctRes.val.attributes) |-> ctRes.val.attributes[i].name],
                SkTree.val).val
DecCoefficients == calc_coefficients(SkTree.val, FrOne)

\* The leaves keygen generated a share for and made no key component of.
SkippedLeaves ==
    {i \in 1..Len(skRes.shares) :
        master_get_private(msk, remove_index(skRes.shares[i][1])).tag = "Err"}

\* C14: when pk and msk come from one setup call, keygen returned Ok and encrypt returned
\* Ok, every leaf of decrypt's cover has an entry in ct.attributes, in sk.du and in the
\* coefficient list, so no unwrapped lookup aborts and decrypt returns either the AEAD's
\* result or the policy-mismatch error, also when keygen skipped leaves absent from msk.
DecryptLookupsAreTotal ==
    decRes # None =>
        /\ decRes.tag # "Panic"
        /\ \/ decRes.opened
           \/ decRes = NotOpened(Err("Error in decrypt: attributes do not match policy."))
        /\ DecCover[1] =>
              /\ decRes.opened
              /\ DecCoefficients # None
              /\ \A i \in 1..Len(DecCover[2]) :
                    /\ get_public(ctRes.val, DecCover[2][i][1]).tag = "Ok"
                    /\ secret_get_private(skRes.val, DecCover[2][i][1]).tag = "Ok"
                    /\ \E k \in 1..Len(DecCoefficients.val) :
                          DecCoefficients.val[k][1] = DecCover[2][i][2]

\* keygen skipped a leaf the master key lacks, and decrypt went through its cover's
\* lookups and opened the AEAD.
DecryptLookupsWitness ==
    /\ decRes # None
    /\ SkippedLeaves # {}
    /\ DecCover[1]
    /\ Len(DecCover[2]) > 0
    /\ decRes.opened
    /\ decRes.tag = "Ok"
====
